---- MODULE Spec2Model ----
(***************************************************************************)
(* The budget allocation optimizer of roi_modeler                           *)
(* (src/src/roi_modeler/optimize.py) as a state machine: one call of        *)
(* optimize_budget is a run through the phases weights -> normalize ->      *)
(* check -> loop -> residual -> materialize, and the call is made twice on  *)
(* the same inputs.                                                         *)
(*                                                                          *)
(* Numbers.  A Python float is modelled as a fixed-point number with three  *)
(* decimals, held as an integer count of thousandths (100.004 is 100004),   *)
(* or as the value NaN.  A cell that to_float maps to Python's None is the  *)
(* value None.  Tolerances below one thousandth (1e-6, 1e-9) are 0 at this  *)
(* resolution; round(x, 2) rounds to a multiple of 10 thousandths,          *)
(* round(x, 4) and round(x, 6) leave a three-decimal value as it is.        *)
(* A weight, an alpha and the divisor 400 are plain integers.               *)
(***************************************************************************)
EXTENDS Integers, Sequences, FiniteSets, TLC

\* float('nan'): every comparison with it is false, arithmetic propagates it.
NaN == -2000000000

\* Python's None, what to_float returns for a missing cell.
None == -2000000001

IsNum(x) == x # NaN /\ x # None

(***************************************************************************)
(* Float arithmetic and comparisons (IEEE: NaN propagates, compares false). *)
(***************************************************************************)
FAdd(a, b) == IF a = NaN \/ b = NaN THEN NaN ELSE a + b

FSub(a, b) == IF a = NaN \/ b = NaN THEN NaN ELSE a - b

\* n * x for a plain integer n (a weight or an alpha) and a float x.
FScale(n, x) == IF n = NaN \/ x = NaN THEN NaN ELSE n * x

\* a * b for two fixed-point values, truncated to a thousandth; b >= 0.
FMul(a, b) ==
    IF a = NaN \/ b = NaN THEN NaN
    ELSE a * (b \div 1000) + ((a * (b % 1000)) \div 1000)

FLt(a, b) == a # NaN /\ b # NaN /\ a < b

FLe(a, b) == a # NaN /\ b # NaN /\ a <= b

FGt(a, b) == a # NaN /\ b # NaN /\ a > b

FGe(a, b) == a # NaN /\ b # NaN /\ a >= b

\* Python's max(a, b) and min(a, b): the first argument stays unless the
\* second compares greater (smaller), so a NaN first argument stays.
PyMax(a, b) == IF FGt(b, a) THEN b ELSE a

PyMin(a, b) == IF FLt(b, a) THEN b ELSE a

\* Python's "x or d": d when x is None or 0; NaN is truthy.
PyOr(x, d) == IF x = None \/ x = 0 THEN d ELSE x

Pow10(k) == IF k = 0 THEN 1 ELSE IF k = 1 THEN 10 ELSE 100

\* num / den for num >= 0, den > 0, to three decimals by long division.
RECURSIVE LongDiv(_, _, _)
LongDiv(rem, den, digits) ==
    IF digits = 0 THEN 0
    ELSE LET d == (rem * 10) \div den
             r == (rem * 10) % den
         IN  d * Pow10(digits - 1) + LongDiv(r, den, digits - 1)

FDiv(num, den) ==
    IF num = NaN \/ den = NaN THEN NaN
    ELSE (num \div den) * 1000 + LongDiv(num % den, den, 3)

\* round(x, 2): to the nearest multiple of 10 thousandths, halves to even.
Round2(x) ==
    IF x = NaN THEN NaN
    ELSE LET q == x \div 10
             r == x % 10
         IN  IF r < 5 THEN q * 10
             ELSE IF r > 5 THEN (q + 1) * 10
             ELSE IF q % 2 = 0 THEN q * 10 ELSE (q + 1) * 10

\* pandas Series.sum(): NaN entries are skipped.
RECURSIVE SumSkipNa(_)
SumSkipNa(s) ==
    IF s = <<>> THEN 0
    ELSE (IF Head(s) = NaN THEN 0 ELSE Head(s)) + SumSkipNa(Tail(s))

\* The integer square root, by bisection.
RECURSIVE IsqrtIn(_, _, _)
IsqrtIn(n, lo, hi) ==
    IF lo >= hi THEN lo
    ELSE LET mid == (lo + hi + 1) \div 2
         IN  IF mid * mid <= n THEN IsqrtIn(n, mid, hi)
             ELSE IsqrtIn(n, lo, mid - 1)

Isqrt(n) == IsqrtIn(n, 0, 46340)

\* spend ** beta for spend > 0; beta is 1.0 (1000) or 0.5 (500).  The root of
\* a value in thousandths: sqrt(s/1000) = sqrt(10*s)/100, kept to 0.01.
FPow(spend, beta) ==
    IF spend = NaN THEN NaN
    ELSE IF beta = 1000 THEN spend
    ELSE Isqrt(10 * spend) * 10

(***************************************************************************)
(* io_utils: the two cell conversions.                                      *)
(***************************************************************************)
\* A raw "enabled" cell is held by its str() form: "True" and "False" are
\* the Python bools, "nan" is the float NaN a left merge leaves for a channel
\* without a constraint row, the others are text cells of a CSV.
EnabledCells == {"True", "False", "nan", "yes", " Y ", "no", "0", "1"}

\* str(value).strip().lower() on the text cells above.
StripLower(text) ==
    CASE text = " Y " -> "y"
      [] text = "Pipeline " -> "pipeline"
      [] text = "Growth" -> "growth"
      [] OTHER -> text

as_bool(value) ==
    IF value \in {"True", "False"} THEN value = "True"
    ELSE StripLower(value) \in {"1", "true", "t", "yes", "y"}

\* to_float on a numeric cell: None for a missing one (NaN), else the number.
to_float(value) == IF value = None \/ value = NaN THEN None ELSE value

\* Series.apply(to_float): pandas infers the dtype of the mapped column.  A
\* column of numbers and Nones becomes float64, its Nones NaN again; a column
\* of Nones only stays an object column of Nones.
ApplyToFloat(col) ==
    LET mapped == [i \in DOMAIN col |-> to_float(col[i])]
    IN  IF \E i \in DOMAIN col : mapped[i] # None
        THEN [i \in DOMAIN col |-> IF mapped[i] = None THEN NaN ELSE mapped[i]]
        ELSE mapped

(***************************************************************************)
(* _build_weights, _predict, _score.                                        *)
(***************************************************************************)
WeightNames == {"pipeline", "revenue", "hqls", "leads", "roas", "cac"}

\* {ok, weights}: ok is FALSE where the code raises "Unknown objective".
build_weights(objective, objective_catalog, overrides) ==
    LET found    == objective \in DOMAIN objective_catalog
        defaults == IF found THEN objective_catalog[objective] ELSE <<>>
        base     == [k \in WeightNames |->
                        IF k \in DOMAIN defaults THEN defaults[k] ELSE 0]
    IN  IF DOMAIN defaults = {}
        THEN [ok |-> FALSE, weights |-> base]
        ELSE [ok |-> TRUE,
              weights |-> [k \in WeightNames |->
                              IF k \in DOMAIN overrides THEN overrides[k]
                              ELSE base[k]]]

ZeroMetrics ==
    [pipeline |-> 0, revenue |-> 0, hqls |-> 0, leads |-> 0, roas |-> 0, cac |-> 0]

predict(row, spend) ==
    IF FLe(spend, 0) THEN ZeroMetrics
    ELSE LET pw       == FPow(spend, row.beta)
             pipeline == FScale(row.alpha_pipeline, pw)
             revenue  == FScale(row.alpha_revenue, pw)
             hqls     == FScale(row.alpha_hqls, pw)
             leads    == FScale(row.alpha_leads, pw)
         IN  [pipeline |-> pipeline,
              revenue  |-> revenue,
              hqls     |-> hqls,
              leads    |-> leads,
              roas     |-> IF FGt(spend, 0) THEN FDiv(revenue, spend) ELSE 0,
              cac      |-> IF FGt(hqls, 0) THEN FDiv(spend, hqls) ELSE 0]

score(metrics, weights) ==
    FSub(FAdd(FAdd(FAdd(FAdd(FScale(weights.pipeline, metrics.pipeline),
                             FScale(weights.revenue, metrics.revenue)),
                        FScale(weights.hqls, metrics.hqls)),
                   FScale(weights.leads, metrics.leads)),
              FScale(weights.roas, metrics.roas)),
         FScale(weights.cac, metrics.cac))

(***************************************************************************)
(* _normalize_constraints.                                                  *)
(***************************************************************************)
NumericCols == {"min_spend", "max_spend", "locked_spend", "min_share", "max_share"}

\* The left merge on "channel": the baseline row with the cells of its
\* constraint row, or with NaN in every constraint column when it has none.
\* (A constraint table holds at most one row per channel.)
MergeRow(b, constraints_df) ==
    LET hits == {j \in DOMAIN constraints_df : constraints_df[j].channel = b.channel}
    IN  IF hits = {}
        THEN [base |-> b, enabled |-> "nan", min_spend |-> NaN, max_spend |-> NaN,
              locked_spend |-> NaN, min_share |-> NaN, max_share |-> NaN]
        ELSE LET c == constraints_df[CHOOSE j \in hits : TRUE]
             IN  [base |-> b, enabled |-> c.enabled, min_spend |-> c.min_spend,
                  max_spend |-> c.max_spend, locked_spend |-> c.locked_spend,
                  min_share |-> c.min_share, max_share |-> c.max_share]

\* ResolveRow without the branch for a channel that is not enabled.
ResolveRowEnabledIgnored(row, total_budget) ==
    IF row.locked_spend # None /\ FGe(row.locked_spend, 0)
    THEN <<row.locked_spend, row.locked_spend>>
    ELSE <<PyOr(row.min_spend, 0), PyMax(PyOr(row.max_spend, total_budget), PyOr(row.min_spend, 0))>>

\* ResolveRow with a locked value taken as the minimum only.
ResolveRowLockAsFloor(row, total_budget) ==
    IF ~row.enabled THEN <<0, 0>>
    ELSE IF row.locked_spend # None /\ FGe(row.locked_spend, 0)
    THEN <<row.locked_spend, PyMax(total_budget, row.locked_spend)>>
    ELSE <<PyOr(row.min_spend, 0), PyMax(PyOr(row.max_spend, total_budget), PyOr(row.min_spend, 0))>>

\* One row of the loop at lines 100-124: <<min, max>> of the channel.
ResolveRow(row, total_budget) ==
    IF ~row.enabled THEN <<0, 0>>
    ELSE IF row.locked_spend # None /\ FGe(row.locked_spend, 0)
    THEN <<row.locked_spend, row.locked_spend>>
    ELSE LET min0 == PyOr(row.min_spend, 0)
             max0 == PyOr(row.max_spend, total_budget)
             min1 == IF row.min_share # None
                     THEN PyMax(min0, FMul(row.min_share, total_budget))
                     ELSE min0
             max1 == IF row.max_share # None
                     THEN PyMin(max0, FMul(row.max_share, total_budget))
                     ELSE max0
         IN  <<min1, PyMax(max1, min1)>>

normalize_constraints(baseline_df, constraints_df, total_budget) ==
    LET joined == [i \in DOMAIN baseline_df |-> MergeRow(baseline_df[i], constraints_df)]
        col(c) == ApplyToFloat([i \in DOMAIN joined |-> joined[i][c]])
        coerced == [i \in DOMAIN joined |->
                      [base         |-> joined[i].base,
                       channel      |-> joined[i].base.channel,
                       enabled      |-> as_bool(joined[i].enabled),
                       min_spend    |-> col("min_spend")[i],
                       max_spend    |-> col("max_spend")[i],
                       locked_spend |-> col("locked_spend")[i],
                       min_share    |-> col("min_share")[i],
                       max_share    |-> col("max_share")[i]]]
    IN  [i \in DOMAIN coerced |->
            [base                |-> coerced[i].base,
             channel             |-> coerced[i].channel,
             enabled             |-> coerced[i].enabled,
             min_spend           |-> coerced[i].min_spend,
             max_spend           |-> coerced[i].max_spend,
             locked_spend        |-> coerced[i].locked_spend,
             min_share           |-> coerced[i].min_share,
             max_share           |-> coerced[i].max_share,
             min_spend_effective |-> ResolveRow(coerced[i], total_budget)[1],
             max_spend_effective |-> ResolveRow(coerced[i], total_budget)[2]]]

(***************************************************************************)
(* optimize_budget: the greedy loop's scan, the residual pass, the result.  *)
(***************************************************************************)
\* 1e-6 of lines 150, 152 and 189, and 1e-9 of lines 160 and 171, in
\* thousandths.
FeasTol == 0

LoopTol == 0

\* step = max(total_budget / 400.0, 50.0)
StepDivisor == 400

MinStep == 50000

\* for _ in range(100000)
MaxRounds == 100000

\* The scan of lines 162-182 from channel i on; best is the running
\* (best_idx, best_gain, best_delta), best_idx 0 standing for None and for
\* the gain -inf with it.
\* Scan with best_gain starting at 0 instead of -inf: only a positive gain
\* is taken.
RECURSIVE ScanPositiveOnly(_, _, _, _, _, _, _)
ScanPositiveOnly(i, best, mrg, alloc, rem, stp, wts) ==
    IF i > Len(mrg) THEN best
    ELSE LET row       == mrg[i]
             current   == alloc[i]
             max_spend == row.max_spend_effective
             delta     == PyMin(PyMin(stp, rem), FSub(max_spend, current))
             gain      == FSub(score(predict(row.base, FAdd(current, delta)), wts),
                               score(predict(row.base, current), wts))
         IN  IF ~row.enabled \/ FGe(current, FSub(max_spend, LoopTol))
             THEN ScanPositiveOnly(i + 1, best, mrg, alloc, rem, stp, wts)
             ELSE IF FGt(gain, best.gain)
             THEN ScanPositiveOnly(i + 1, [idx |-> i, gain |-> gain, delta |-> delta],
                                   mrg, alloc, rem, stp, wts)
             ELSE ScanPositiveOnly(i + 1, best, mrg, alloc, rem, stp, wts)

RECURSIVE Scan(_, _, _, _, _, _, _)
Scan(i, best, mrg, alloc, rem, stp, wts) ==
    IF i > Len(mrg) THEN best
    ELSE LET row       == mrg[i]
             current   == alloc[i]
             max_spend == row.max_spend_effective
             delta     == PyMin(PyMin(stp, rem), FSub(max_spend, current))
             gain      == FSub(score(predict(row.base, FAdd(current, delta)), wts),
                               score(predict(row.base, current), wts))
             better    == IF best.idx = 0 THEN gain # NaN ELSE FGt(gain, best.gain)
         IN  IF ~row.enabled \/ FGe(current, FSub(max_spend, LoopTol))
             THEN Scan(i + 1, best, mrg, alloc, rem, stp, wts)
             ELSE IF better
             THEN Scan(i + 1, [idx |-> i, gain |-> gain, delta |-> delta],
                       mrg, alloc, rem, stp, wts)
             ELSE Scan(i + 1, best, mrg, alloc, rem, stp, wts)

Best(mrg, alloc, rem, stp, wts) ==
    Scan(1, [idx |-> 0, gain |-> 0, delta |-> 0], mrg, alloc, rem, stp, wts)

\* floor(a * b / c) for a >= 0 and 0 <= b <= c, c > 0, without a product
\* wider than the operands: <<quotient, remainder>> by doubling.
RECURSIVE MulDivR(_, _, _)
MulDivR(a, b, c) ==
    IF a = 0 THEN <<0, 0>>
    ELSE LET h  == MulDivR(a \div 2, b, c)
             r2 == 2 * h[2] + (IF a % 2 = 1 THEN b ELSE 0)
         IN  <<2 * h[1] + (r2 \div c), r2 % c>>

\* Lines 190-194: available = (max - allocation).clip(lower=0), and the
\* remaining budget shared out in proportion to it.
Available(mrg, alloc) ==
    [i \in DOMAIN mrg |->
        LET room == FSub(mrg[i].max_spend_effective, alloc[i])
        IN  IF room = NaN THEN NaN ELSE IF room < 0 THEN 0 ELSE room]

\* Redistribute in equal parts among the channels that have headroom.
RedistributeEqually(mrg, alloc, rem) ==
    LET available == Available(mrg, alloc)
        takers    == Cardinality({i \in DOMAIN alloc : FGt(available[i], 0)})
    IN  [i \in DOMAIN alloc |->
            IF alloc[i] = NaN \/ available[i] = NaN THEN NaN
            ELSE IF available[i] > 0 THEN alloc[i] + (rem \div takers)
            ELSE alloc[i]]

Redistribute(mrg, alloc, rem) ==
    LET available == Available(mrg, alloc)
        total     == SumSkipNa(available)
    IN  [i \in DOMAIN alloc |->
            IF alloc[i] = NaN \/ available[i] = NaN THEN NaN
            ELSE alloc[i] + MulDivR(rem, available[i], total)[1]]

\* sort_values(by="recommended_spend", ascending=False): largest first, NaN
\* last, rows of equal spend in their order of the table.
RECURSIVE InsertRow(_, _)
InsertRow(r, sorted) ==
    IF sorted = <<>> THEN <<r>>
    ELSE IF Head(sorted).recommended_spend = NaN
              \/ FGt(r.recommended_spend, Head(sorted).recommended_spend)
    THEN <<r>> \o sorted
    ELSE <<Head(sorted)>> \o InsertRow(r, Tail(sorted))

\* SortRows that leaves the rows in the order of the merged table.
Unsorted(rows) == rows

RECURSIVE SortRows(_)
SortRows(rows) ==
    IF rows = <<>> THEN <<>>
    ELSE InsertRow(rows[Len(rows)], SortRows(SubSeq(rows, 1, Len(rows) - 1)))

\* One row of the allocation table, lines 199-215.
ResultRow(row, spend, total_budget) ==
    LET pred == predict(row.base, spend)
    IN  [channel           |-> row.channel,
         recommended_spend |-> Round2(spend),
         recommended_share |-> IF total_budget > 0 THEN FDiv(spend, total_budget) ELSE 0,
         pred_pipeline     |-> Round2(pred.pipeline),
         pred_revenue      |-> Round2(pred.revenue),
         pred_hqls         |-> Round2(pred.hqls),
         pred_leads        |-> Round2(pred.leads),
         pred_roas         |-> pred.roas,
         pred_cac          |-> pred.cac,
         min_spend         |-> Round2(row.min_spend_effective),
         max_spend         |-> Round2(row.max_spend_effective)]

Column(rows, name) == [i \in DOMAIN rows |-> rows[i][name]]

\* GuardrailStatus without the check of max_cac.
GuardrailStatusRoasOnly(guardrails, overall_roas, overall_cac) ==
    LET min_roas == to_float(guardrails.min_roas)
    IN  IF min_roas # None /\ FLt(overall_roas, min_roas) THEN "fail" ELSE "pass"

\* Lines 225-232.
GuardrailStatus(guardrails, overall_roas, overall_cac) ==
    LET min_roas == to_float(guardrails.min_roas)
        max_cac  == to_float(guardrails.max_cac)
    IN  IF (min_roas # None /\ FLt(overall_roas, min_roas))
           \/ (max_cac # None /\ FGt(overall_cac, max_cac))
        THEN "fail" ELSE "pass"

\* Lines 197-217: the allocation table, sorted.
AllocationTable(mrg, alloc, total_budget) ==
    SortRows([i \in DOMAIN mrg |-> ResultRow(mrg[i], alloc[i], total_budget)])

\* Lines 219-247: the summary of a sorted allocation table.
SummaryOf(allocation_df, rem, total_budget, obj, wts, guardrails, now) ==
    LET total_pipeline == SumSkipNa(Column(allocation_df, "pred_pipeline"))
        total_revenue  == SumSkipNa(Column(allocation_df, "pred_revenue"))
        total_hqls     == SumSkipNa(Column(allocation_df, "pred_hqls"))
        overall_roas   == IF total_budget > 0 THEN FDiv(total_revenue, total_budget) ELSE 0
        overall_cac    == IF total_hqls > 0 THEN FDiv(total_budget, total_hqls) ELSE 0
    IN  [generated_at       |-> now,
         objective          |-> obj,
         weights            |-> wts,
         total_budget       |-> Round2(total_budget),
         total_pipeline     |-> Round2(total_pipeline),
         total_revenue      |-> Round2(total_revenue),
         total_hqls         |-> Round2(total_hqls),
         overall_roas       |-> overall_roas,
         overall_cac        |-> overall_cac,
         guardrail_status   |-> GuardrailStatus(guardrails, overall_roas, overall_cac),
         unallocated_budget |-> rem]

RECURSIVE Reverse(_)
Reverse(s) == IF s = <<>> THEN <<>> ELSE Reverse(Tail(s)) \o <<Head(s)>>

\* Materialized with the rows in an order that depends on the moment of the
\* call (an iteration order that is not fixed).
MaterializedUnordered(mrg, alloc, rem, total_budget, obj, wts, guardrails, now) ==
    LET allocation_df == AllocationTable(mrg, alloc, total_budget)
    IN  [allocation |-> IF now % 2 = 1 THEN Reverse(allocation_df) ELSE allocation_df,
         summary    |-> SummaryOf(allocation_df, rem, total_budget, obj, wts, guardrails, now)]

\* Lines 197-248: the OptimizationResult.
Materialized(mrg, alloc, rem, total_budget, obj, wts, guardrails, now) ==
    LET allocation_df == AllocationTable(mrg, alloc, total_budget)
    IN  [allocation |-> allocation_df,
         summary    |-> SummaryOf(allocation_df, rem, total_budget, obj, wts, guardrails, now)]

(***************************************************************************)
(* The inputs of a call.                                                    *)
(***************************************************************************)
\* The channel baseline table (amounts in thousandths, beta 0.5 or 1.0).
BaselineTable ==
    << [channel |-> "search", baseline_spend |-> 50000, beta |-> 500,
        alpha_pipeline |-> 20, alpha_revenue |-> 4, alpha_hqls |-> 1, alpha_leads |-> 2],
       [channel |-> "social", baseline_spend |-> 30000, beta |-> 1000,
        alpha_pipeline |-> 1, alpha_revenue |-> 2, alpha_hqls |-> 1, alpha_leads |-> 1],
       [channel |-> "email", baseline_spend |-> 20000, beta |-> 500,
        alpha_pipeline |-> 3, alpha_revenue |-> 1, alpha_hqls |-> 0, alpha_leads |-> 1] >>

\* The cells of one constraint row; NaN is an empty cell.
Cells(en, mn, mx, lk, ms, xs) ==
    [enabled |-> en, min_spend |-> mn, max_spend |-> mx, locked_spend |-> lk,
     min_share |-> ms, max_share |-> xs]

\* Constraint rows for a budget of 100.000.
CuratedRows ==
    { Cells("True", NaN, NaN, NaN, NaN, NaN),
      Cells("False", NaN, NaN, 25000, NaN, NaN),
      Cells("True", NaN, NaN, 4, NaN, NaN),
      Cells("True", NaN, NaN, 25000, NaN, NaN),
      Cells("True", 30000, 80000, NaN, NaN, NaN),
      Cells("True", 60000, NaN, NaN, NaN, NaN),
      Cells("True", NaN, 0, NaN, NaN, NaN),
      Cells("True", -10000, NaN, NaN, NaN, NaN),
      Cells("True", NaN, NaN, NaN, 100, 400),
      Cells("True", NaN, 40000, NaN, NaN, NaN) }

\* The constraint table holding row f[i] for the i-th channel, i in S.
RECURSIVE TableOf(_, _, _, _)
TableOf(baseline_df, S, f, i) ==
    IF i > Len(baseline_df) THEN <<>>
    ELSE (IF i \in S
          THEN << [channel |-> baseline_df[i].channel] @@ f[i] >>
          ELSE <<>>) \o TableOf(baseline_df, S, f, i + 1)

\* configs/objectives.yaml: name -> the weights it gives; "blank" gives none.
Catalog ==
    [pipeline   |-> [pipeline |-> 1],
     efficiency |-> [roas |-> 1, cac |-> 1, revenue |-> 1],
     blank      |-> <<>>,
     flat       |-> [pipeline |-> 0],
     cost       |-> [cac |-> 1],
     Growth     |-> [pipeline |-> 1, leads |-> 1]]

NoGuardrails == [min_roas |-> None, max_cac |-> None]

Request(tb, obj, ov, gr) ==
    [total_budget |-> tb, objective |-> obj, objective_overrides |-> ov, guardrails |-> gr]

(***************************************************************************)
(* build_default_constraints (ingest.py).                                   *)
(***************************************************************************)
\* DefaultRow without the cap of 0.75 * total_budget on max_spend.
DefaultRowUncapped(b, total_budget) ==
    LET bs        == b.baseline_spend
        min_spend == IF bs <= 0 THEN 0 ELSE Round2(FMul(400, bs))
        max_spend == Round2(PyMax(FMul(1800, bs), FMul(100, total_budget)))
    IN  [channel |-> b.channel]
        @@ Cells(IF bs > 0 THEN "True" ELSE "False", min_spend, max_spend, NaN,
                 IF total_budget > 0 THEN FDiv(min_spend, total_budget) ELSE NaN,
                 IF total_budget > 0 THEN FDiv(max_spend, total_budget) ELSE NaN)

\* Lines 255-275: the constraint record of one baseline row.
DefaultRow(b, total_budget) ==
    LET bs        == b.baseline_spend
        min_spend == IF bs <= 0 THEN 0 ELSE Round2(FMul(400, bs))
        max_spend == IF total_budget <= 0
                     THEN Round2(FMul(1800, bs))
                     ELSE Round2(PyMin(PyMax(FMul(1800, bs), FMul(100, total_budget)),
                                       FMul(750, total_budget)))
    IN  [channel |-> b.channel]
        @@ Cells(IF bs > 0 THEN "True" ELSE "False", min_spend, max_spend, NaN,
                 IF total_budget > 0 THEN FDiv(min_spend, total_budget) ELSE NaN,
                 IF total_budget > 0 THEN FDiv(max_spend, total_budget) ELSE NaN)

build_default_constraints(baseline_df, total_budget) ==
    [i \in DOMAIN baseline_df |-> DefaultRow(baseline_df[i], total_budget)]

VARIABLES
    baseline_df,        \* input: the channel baseline table
    constraints_df,     \* input: the constraint table
    run_request,        \* input: the run request
    objective_catalog,  \* input: the objective catalog
    clock,              \* datetime.now(timezone.utc)
    call,               \* 1 or 2: which of the two calls is running
    pc,                 \* where the running call is
    total_budget, objective, weights,   \* lines 137-140
    merged,             \* line 142
    allocation, remaining, step, rounds,    \* lines 155-187
    result,             \* what the call returned
    error,              \* what the call raised
    first               \* what the first call returned

inputs == <<baseline_df, constraints_df, run_request, objective_catalog>>

locals == <<total_budget, objective, weights, merged, allocation, remaining, step, rounds>>

vars == <<baseline_df, constraints_df, run_request, objective_catalog, clock, call, pc,
          total_budget, objective, weights, merged, allocation, remaining, step,
          rounds, result, error, first>>

NoResult == [allocation |-> <<>>, summary |-> <<>>]

ZeroWeights == [k \in WeightNames |-> 0]

\* A call about to start.
Entry ==
    /\ pc = "weights"
    /\ total_budget = 0
    /\ objective = ""
    /\ weights = ZeroWeights
    /\ merged = <<>>
    /\ allocation = <<>>
    /\ remaining = 0
    /\ step = 0
    /\ rounds = 0
    /\ result = NoResult
    /\ error = "none"

(***************************************************************************)
(* Initial states: the inputs of the call, drawn from three families.       *)
(***************************************************************************)
\* The longest wait between the two calls, in clock ticks.
MaxElapsed == 2

AllFree == [i \in 1..3 |-> Cells("True", NaN, NaN, NaN, NaN, NaN)]

\* Every constraint table over the curated rows, rows missing included.
InitConstraints ==
    /\ baseline_df = BaselineTable
    /\ \E S \in SUBSET (1..3) : \E f \in [S -> CuratedRows] :
          constraints_df = TableOf(BaselineTable, S, f, 1)
    /\ \E obj \in {"pipeline", "efficiency"} :
          run_request = Request(100000, <<obj>>, <<>>, NoGuardrails)

\* Every run request, over two constraint tables.
InitRequests ==
    /\ baseline_df = BaselineTable
    /\ constraints_df \in
          { TableOf(BaselineTable, 1..3, AllFree, 1),
            TableOf(BaselineTable, {1, 2},
                    [i \in {1, 2} |-> Cells("yes", 30000, 80000, NaN, NaN, NaN)], 1) }
    /\ \E tb \in {None, 0, 100000, 100004, 200000} :
       \E obj \in {<<>>, <<"pipeline">>, <<"Pipeline ">>, <<"efficiency">>,
                   <<"blank">>, <<"Growth">>, <<"unlisted">>, <<"flat">>, <<"cost">>} :
       \E ov \in {<<>>, [cac |-> 2], [bogus |-> 5, leads |-> 1]} :
       \E gr \in {NoGuardrails,
                  [min_roas |-> 5000, max_cac |-> None],
                  [min_roas |-> 100, max_cac |-> 20000],
                  [min_roas |-> None, max_cac |-> 2000]} :
          run_request = Request(tb, obj, ov, gr)

\* A budget above 20,000, where the step is total_budget / 400.
InitLarge ==
    /\ baseline_df = BaselineTable
    /\ constraints_df \in
          { TableOf(BaselineTable, 1..3, AllFree, 1),
            TableOf(BaselineTable, 1..3,
                    [i \in 1..3 |-> Cells("True", 1000000, 9000500, NaN, NaN, NaN)], 1) }
    /\ run_request = Request(20002000, <<"pipeline">>, <<>>, NoGuardrails)

\* A weight that is no number (an override of "nan"): no gain compares
\* greater, the loop applies no increment and the residual pass shares out
\* the budget. The headrooms divide the remaining budget exactly.
InitResidual ==
    /\ baseline_df = BaselineTable
    /\ constraints_df \in
          { TableOf(BaselineTable, {1, 2},
                    [i \in {1, 2} |-> Cells("yes", 30000, 80000, NaN, NaN, NaN)], 1),
            TableOf(BaselineTable, 1..3,
                    <<Cells("True", 10000, 30000, NaN, NaN, NaN),
                      Cells("True", 20000, 70000, NaN, NaN, NaN),
                      Cells("True", 30000, 40000, NaN, NaN, NaN)>>, 1) }
    /\ \E obj \in {<<"pipeline">>, <<"efficiency">>} :
          run_request = Request(100000, obj, [pipeline |-> NaN, revenue |-> NaN],
                                NoGuardrails)

InitRun ==
    /\ objective_catalog = Catalog
    /\ clock = 0
    /\ call = 1
    /\ first = NoResult
    /\ Entry

Init == InitRun /\ (InitConstraints \/ InitRequests \/ InitLarge \/ InitResidual)

(***************************************************************************)
(* The steps of optimize_budget.                                            *)
(***************************************************************************)
\* Lines 137-140.
BuildWeights ==
    /\ pc = "weights"
    /\ LET tb  == PyOr(run_request.total_budget,
                       SumSkipNa(Column(baseline_df, "baseline_spend")))
           obj == StripLower(IF Len(run_request.objective) = 0 THEN "pipeline"
                             ELSE run_request.objective[1])
           w   == build_weights(obj, objective_catalog, run_request.objective_overrides)
       IN  /\ total_budget' = tb
           /\ objective' = obj
           /\ IF w.ok
              THEN weights' = w.weights /\ pc' = "normalize" /\ error' = error
              ELSE weights' = weights /\ pc' = "raised" /\ error' = "UnknownObjective"
    /\ UNCHANGED <<inputs, clock, call, merged, allocation, remaining, step, rounds,
                   result, first>>

\* Lines 142-146.
NormalizeConstraints ==
    /\ pc = "normalize"
    /\ merged' = normalize_constraints(baseline_df, constraints_df, total_budget)
    /\ pc' = "check"
    /\ UNCHANGED <<inputs, clock, call, total_budget, objective, weights, allocation,
                   remaining, step, rounds, result, error, first>>

MinTotal(mrg) == SumSkipNa(Column(mrg, "min_spend_effective"))

MaxTotal(mrg) == SumSkipNa(Column(mrg, "max_spend_effective"))

\* Feasibility without the check of the maximums.
FeasibilityMinOnly(mrg, tb) ==
    IF FGt(FSub(MinTotal(mrg), tb), FeasTol) THEN "min" ELSE "ok"

\* Lines 148-153: "min" or "max" names the bound that makes the constraints
\* infeasible, "ok" that neither does.
Feasibility(mrg, tb) ==
    IF FGt(FSub(MinTotal(mrg), tb), FeasTol) THEN "min"
    ELSE IF FLt(FAdd(MaxTotal(mrg), FeasTol), tb) THEN "max"
    ELSE "ok"

\* Lines 148-157.
CheckFeasible ==
    /\ pc = "check"
    /\ LET verdict == Feasibility(merged, total_budget)
           start   == Column(merged, "min_spend_effective")
       IN  IF verdict = "ok"
           THEN /\ allocation' = start
                /\ remaining' = total_budget - SumSkipNa(start)
                /\ step' = PyMax(total_budget \div StepDivisor, MinStep)
                /\ rounds' = 0
                /\ pc' = "loop"
                /\ error' = error
           ELSE /\ pc' = "raised"
                /\ error' = IF verdict = "min" THEN "InfeasibleMin" ELSE "InfeasibleMax"
                /\ UNCHANGED <<allocation, remaining, step, rounds>>
    /\ UNCHANGED <<inputs, clock, call, total_budget, objective, weights, merged,
                   result, first>>

\* GreedyRound without "remaining -= best_delta".
GreedyRoundNoDebit ==
    /\ pc = "loop"
    /\ rounds < MaxRounds
    /\ ~FLe(remaining, LoopTol)
    /\ LET best == Best(merged, allocation, remaining, step, weights)
       IN  /\ best.idx # 0
           /\ allocation' = [allocation EXCEPT ![best.idx] = FAdd(@, best.delta)]
    /\ rounds' = rounds + 1
    /\ UNCHANGED <<inputs, clock, call, pc, total_budget, objective, weights, merged,
                   remaining, step, result, error, first>>

\* Lines 159-187: one round that applies an increment.
GreedyRound ==
    /\ pc = "loop"
    /\ rounds < MaxRounds
    /\ ~FLe(remaining, LoopTol)
    /\ LET best == Best(merged, allocation, remaining, step, weights)
       IN  /\ best.idx # 0
           /\ allocation' = [allocation EXCEPT ![best.idx] = FAdd(@, best.delta)]
           /\ remaining' = FSub(remaining, best.delta)
    /\ rounds' = rounds + 1
    /\ UNCHANGED <<inputs, clock, call, pc, total_budget, objective, weights, merged,
                   step, result, error, first>>

\* Lines 159-161 and 184-185: the loop is left.
LoopExit ==
    /\ pc = "loop"
    /\ \/ rounds >= MaxRounds
       \/ FLe(remaining, LoopTol)
       \/ Best(merged, allocation, remaining, step, weights).idx = 0
    /\ pc' = "residual"
    /\ UNCHANGED <<inputs, clock, call, locals, result, error, first>>

\* Lines 189-195.
Residual ==
    /\ pc = "residual"
    /\ IF FGt(remaining, FeasTol) /\ SumSkipNa(Available(merged, allocation)) > 0
       THEN /\ allocation' = Redistribute(merged, allocation, remaining)
            /\ remaining' = 0
       ELSE UNCHANGED <<allocation, remaining>>
    /\ pc' = "materialize"
    /\ UNCHANGED <<inputs, clock, call, total_budget, objective, weights, merged,
                   step, rounds, result, error, first>>

\* Lines 197-248.
Materialize ==
    /\ pc = "materialize"
    /\ result' = Materialized(merged, allocation, remaining, total_budget, objective,
                              weights, run_request.guardrails, clock)
    /\ pc' = "returned"
    /\ UNCHANGED <<inputs, clock, call, locals, error, first>>

\* The caller keeps the result and calls again with the same inputs, some
\* time later.
CallAgain ==
    /\ pc = "returned"
    /\ call = 1
    /\ first' = result
    /\ call' = 2
    /\ \E d \in 1..MaxElapsed : clock' = clock + d
    /\ pc' = "weights"
    /\ total_budget' = 0
    /\ objective' = ""
    /\ weights' = ZeroWeights
    /\ merged' = <<>>
    /\ allocation' = <<>>
    /\ remaining' = 0
    /\ step' = 0
    /\ rounds' = 0
    /\ result' = NoResult
    /\ error' = "none"
    /\ UNCHANGED inputs

Next ==
    \/ BuildWeights
    \/ NormalizeConstraints
    \/ CheckFeasible
    \/ GreedyRound
    \/ LoopExit
    \/ Residual
    \/ Materialize
    \/ CallAgain

Spec == Init /\ [][Next]_vars

(***************************************************************************)
(* The ingestion collaborator derives the constraints, then the optimizer   *)
(* runs on them.                                                            *)
(***************************************************************************)
\* baseline_spend values, 0.03 and 99.97 among them.
DefaultSpends == {0, 30, 10000, 25000, 50000, 75000, 90000, 99970, 100000}

\* The first n channels of BaselineTable with the spends f.
WithSpends(f) ==
    [i \in DOMAIN f |-> [BaselineTable[i] EXCEPT !.baseline_spend = f[i]]]

SpendTotal(df) == SumSkipNa(Column(df, "baseline_spend"))

\* max_share * total_budget is max_spend again in floating point (to within
\* one unit in the last place); the tables are those for which it is so in
\* thousandths.
ExactShares(df, tb) ==
    \A i \in DOMAIN df :
        LET r == DefaultRow(df[i], tb)
        IN  FMul(r.max_share, tb) = r.max_spend

InitDefaults ==
    /\ \E n \in 1..3 : \E f \in [1..n -> DefaultSpends] :
          /\ baseline_df = WithSpends(f)
          /\ SpendTotal(WithSpends(f)) > 0
          /\ \E tb \in {SpendTotal(WithSpends(f)), 200000} :
                /\ ExactShares(WithSpends(f), tb)
                /\ run_request = Request(tb, <<"pipeline">>, <<>>, NoGuardrails)
    /\ constraints_df = <<>>
    /\ objective_catalog = Catalog
    /\ clock = 0
    /\ call = 1
    /\ first = NoResult
    /\ pc = "ingest"
    /\ total_budget = 0
    /\ objective = ""
    /\ weights = ZeroWeights
    /\ merged = <<>>
    /\ allocation = <<>>
    /\ remaining = 0
    /\ step = 0
    /\ rounds = 0
    /\ result = NoResult
    /\ error = "none"

\* ingest.py line 298, sample_data.py line 111.
BuildDefaultConstraints ==
    /\ pc = "ingest"
    /\ constraints_df' = build_default_constraints(baseline_df, run_request.total_budget)
    /\ pc' = "weights"
    /\ UNCHANGED <<baseline_df, run_request, objective_catalog, clock, call, locals,
                   result, error, first>>

NextDefaults ==
    \/ BuildDefaultConstraints
    \/ BuildWeights
    \/ NormalizeConstraints
    \/ CheckFeasible
    \/ GreedyRound
    \/ LoopExit
    \/ Residual
    \/ Materialize
    \/ CallAgain

SpecDefaults == InitDefaults /\ [][NextDefaults]_vars

(***************************************************************************)
(* What the claims speak of.                                                *)
(***************************************************************************)
Abs(x) == IF x < 0 THEN -x ELSE x

\* The constraints have been resolved (line 142 has run) in this call.
Resolved == merged # <<>>

\* The call passed the feasibility check.
PastCheck == pc \in {"loop", "residual", "materialize", "returned"}

HasRow(ch) == \E j \in DOMAIN constraints_df : constraints_df[j].channel = ch

RawRow(ch) == constraints_df[CHOOSE j \in DOMAIN constraints_df : constraints_df[j].channel = ch]

\* The result row of channel ch.
ResultOf(ch) ==
    result.allocation[CHOOSE j \in DOMAIN result.allocation :
                          result.allocation[j].channel = ch]

RecommendedSum == SumSkipNa(Column(result.allocation, "recommended_spend"))

C2_BoundRespect ==
    pc \in {"residual", "materialize", "returned"} =>
        \A i \in DOMAIN merged :
            /\ FLe(merged[i].min_spend_effective, allocation[i])
            /\ FLe(allocation[i], merged[i].max_spend_effective)

(***************************************************************************)
(* C3  Locked channel.                                                      *)
(***************************************************************************)
Locked(ch) == HasRow(ch) /\ RawRow(ch).locked_spend # NaN /\ RawRow(ch).locked_spend >= 0

\* C3 as stated: a channel whose constraint record has locked_spend = L >= 0
\* has recommended_spend = L in every returned result, whatever the other
\* fields of the record are.
C3_LockedChannel ==
    pc = "returned" =>
        \A i \in DOMAIN baseline_df :
            Locked(baseline_df[i].channel) =>
                ResultOf(baseline_df[i].channel).recommended_spend
                    = RawRow(baseline_df[i].channel).locked_spend

\* C3 amended: a channel whose record is enabled and has locked_spend = L >= 0
\* has recommended_spend = L rounded to two decimals.
C3_LockedEnabledChannel ==
    pc = "returned" =>
        \A i \in DOMAIN baseline_df :
            (Locked(baseline_df[i].channel) /\ as_bool(RawRow(baseline_df[i].channel).enabled))
                => ResultOf(baseline_df[i].channel).recommended_spend
                      = Round2(RawRow(baseline_df[i].channel).locked_spend)

\* A returned result with an enabled channel locked at a value that two
\* decimals do not hold, beside a channel that took greedy increments.
C3_Witness ==
    /\ pc = "returned"
    /\ rounds > 0
    /\ \E i \in DOMAIN baseline_df :
          /\ Locked(baseline_df[i].channel)
          /\ as_bool(RawRow(baseline_df[i].channel).enabled)
          /\ Round2(RawRow(baseline_df[i].channel).locked_spend)
                # RawRow(baseline_df[i].channel).locked_spend

(***************************************************************************)
(* C4  Disabled channel.                                                    *)
(***************************************************************************)
\* C4: a channel that is not enabled has both effective bounds 0, its spend
\* is 0 in every state of the greedy loop and after the residual pass, and
\* its recommended_spend is 0.
C4_DisabledChannel ==
    /\ Resolved =>
          \A i \in DOMAIN merged :
              ~merged[i].enabled =>
                  merged[i].min_spend_effective = 0 /\ merged[i].max_spend_effective = 0
    /\ PastCheck =>
          \A i \in DOMAIN merged : ~merged[i].enabled => allocation[i] = 0
    /\ pc = "returned" =>
          \A i \in DOMAIN merged :
              ~merged[i].enabled => ResultOf(merged[i].channel).recommended_spend = 0

\* A returned result with a disabled channel whose record asks for spend,
\* beside a channel that took greedy increments.
C4_Witness ==
    /\ pc = "returned"
    /\ rounds > 0
    /\ \E i \in DOMAIN merged :
          /\ ~merged[i].enabled
          /\ HasRow(merged[i].channel)
          /\ RawRow(merged[i].channel).locked_spend = 25000

(***************************************************************************)
(* C5  Infeasibility detection.                                             *)
(***************************************************************************)
\* The sums the claim names, with the NaN entries left out as the code's
\* sums leave them out.
RECURSIVE SumOver(_, _)
SumOver(S, f) ==
    IF S = {} THEN 0
    ELSE LET i == CHOOSE j \in S : TRUE
         IN  (IF f[i] = NaN THEN 0 ELSE f[i]) + SumOver(S \ {i}, f)

MinBoundSum == SumOver(DOMAIN merged, [i \in DOMAIN merged |-> merged[i].min_spend_effective])

MaxBoundSum == SumOver(DOMAIN merged, [i \in DOMAIN merged |-> merged[i].max_spend_effective])

InfeasibleBounds == MinBoundSum > total_budget \/ MaxBoundSum < total_budget

\* A step of the call can be taken: the guards of GreedyRound, LoopExit,
\* Residual and Materialize.
CanStep ==
    \/ pc \in {"residual", "materialize"}
    \/ /\ pc = "loop"
       /\ \/ rounds >= MaxRounds
          \/ FLe(remaining, LoopTol)
          \/ Best(merged, allocation, remaining, step, weights).idx = 0
          \/ /\ rounds < MaxRounds
             /\ Best(merged, allocation, remaining, step, weights).idx # 0

\* C5: once the constraints are resolved the call raises Infeasible-
\* Constraints, with no result and naming the violated bound, exactly when the effective minimums sum to
\* more than total_budget or the effective maximums to less; otherwise it
\* goes on, a step always possible, until it has returned a result.
C5_InfeasibilityDetection ==
    /\ (pc = "raised" /\ error # "UnknownObjective") =>
          InfeasibleBounds /\ result = NoResult /\ allocation = <<>>
    /\ error = "InfeasibleMin" => MinBoundSum > total_budget
    /\ error = "InfeasibleMax" => MaxBoundSum < total_budget
    /\ PastCheck => ~InfeasibleBounds
    /\ PastCheck => (pc = "returned" /\ Len(result.allocation) = Len(baseline_df)) \/ CanStep

\* A call that raised Infeasible-Constraints on minimums of 60 + 60 > 100.
C5_Witness ==
    /\ pc = "raised"
    /\ error = "InfeasibleMin"
    /\ MinBoundSum = 120000
    /\ total_budget = 100000

C7_MissingConstraintRow ==
    Resolved =>
        \A i \in DOMAIN merged :
            ~HasRow(merged[i].channel) =>
                /\ merged[i].enabled
                /\ merged[i].min_spend_effective = 0
                /\ merged[i].max_spend_effective = total_budget

(***************************************************************************)
(* C8  Resolver invariant.                                                  *)
(***************************************************************************)
\* C8: whatever the constraint record holds, resolution yields
\* 0 <= min_spend_effective <= max_spend_effective for every channel.
C8_ResolverInvariant ==
    Resolved =>
        \A i \in DOMAIN merged :
            /\ FLe(0, merged[i].min_spend_effective)
            /\ FLe(merged[i].min_spend_effective, merged[i].max_spend_effective)

(***************************************************************************)
(* C9  Bound resolution of an enabled, unlocked channel.                    *)
(***************************************************************************)
Given(cell) == cell # NaN

IntMax(a, b) == IF a >= b THEN a ELSE b

IntMin(a, b) == IF a <= b THEN a ELSE b

\* The bounds the claim gives for a record c: m and M are the given absolute
\* bounds, 0 and total_budget only when none is given.
ClaimedMin(c, tb) ==
    LET m == IF Given(c.min_spend) THEN c.min_spend ELSE 0
    IN  IF Given(c.min_share) THEN IntMax(m, FMul(c.min_share, tb)) ELSE m

ClaimedMax(c, tb) ==
    LET M == IF Given(c.max_spend) THEN c.max_spend ELSE tb
    IN  IntMax(IF Given(c.max_share) THEN IntMin(M, FMul(c.max_share, tb)) ELSE M,
               ClaimedMin(c, tb))

\* C9: for an enabled channel without a locked value, whose given min_spend
\* and max_spend are not negative, min_spend_effective = max(m, min_share *
\* total_budget) and max_spend_effective = max(min(M, max_share *
\* total_budget), min_spend_effective), an absent share changing nothing.
C9_BoundResolution ==
    Resolved =>
        \A i \in DOMAIN merged :
            LET ch == merged[i].channel
            IN  (/\ HasRow(ch)
                 /\ as_bool(RawRow(ch).enabled)
                 /\ ~Given(RawRow(ch).locked_spend)
                 /\ Given(RawRow(ch).min_spend) => RawRow(ch).min_spend >= 0
                 /\ Given(RawRow(ch).max_spend) => RawRow(ch).max_spend >= 0)
                => /\ merged[i].min_spend_effective = ClaimedMin(RawRow(ch), total_budget)
                   /\ merged[i].max_spend_effective = ClaimedMax(RawRow(ch), total_budget)

(***************************************************************************)
(* C10  Unknown objective.                                                  *)
(***************************************************************************)
\* C10: weight resolution fails with Unknown-Objective exactly when the
\* requested name is absent from the catalog, before any constraint is
\* resolved; for a name of the catalog it succeeds, each weight the
\* catalog's value, or 0 when the entry gives none (then the override's,
\* where the request gives one).
C10_UnknownObjective ==
    pc # "weights" =>
        /\ (pc = "raised" /\ error = "UnknownObjective")
              <=> objective \notin DOMAIN objective_catalog
        /\ error = "UnknownObjective" => merged = <<>>
        /\ objective \in DOMAIN objective_catalog =>
              \A k \in WeightNames :
                  weights[k] =
                      IF k \in DOMAIN run_request.objective_overrides
                      THEN run_request.objective_overrides[k]
                      ELSE IF k \in DOMAIN objective_catalog[objective]
                      THEN objective_catalog[objective][k]
                      ELSE 0

(***************************************************************************)
(* C11  Guardrail status.                                                   *)
(***************************************************************************)
\* A guardrail of the request that is set.
MinRoasSet == to_float(run_request.guardrails.min_roas) # None

MaxCacSet == to_float(run_request.guardrails.max_cac) # None

\* C11: in a returned result guardrail_status is "fail" exactly when
\* min_roas is set and overall_roas is below it, or max_cac is set and
\* overall_cac is above it, and "pass" otherwise; the allocation table is the
\* one the same run gives without guardrails, and no error is raised.
C11_GuardrailStatus ==
    pc = "returned" =>
        /\ result.summary.guardrail_status \in {"pass", "fail"}
        /\ result.summary.guardrail_status = "fail" <=>
              \/ MinRoasSet /\ result.summary.overall_roas < run_request.guardrails.min_roas
              \/ MaxCacSet /\ result.summary.overall_cac > run_request.guardrails.max_cac
        /\ result.allocation = AllocationTable(merged, allocation, total_budget)
        /\ Len(result.allocation) = Len(baseline_df)
        /\ error = "none"

\* A returned result that fails on max_cac alone, after greedy rounds.
C11_Witness ==
    /\ pc = "returned"
    /\ rounds > 0
    /\ MaxCacSet
    /\ ~MinRoasSet
    /\ result.summary.guardrail_status = "fail"
    /\ Len(result.allocation) = Len(baseline_df)

(***************************************************************************)
(* C12  Residual on success.                                                *)
(***************************************************************************)
\* C12: in every returned result unallocated_budget is at most the
\* feasibility tolerance: no run that passes the feasibility check ends with
\* budget left over.
C12_ResidualAboutZero ==
    pc = "returned" => FLe(result.summary.unallocated_budget, FeasTol)

Derived == pc # "ingest"

\* C14 as stated: for total_budget > 0 each channel's default record has
\* min_spend = 0.40 * baseline_spend, max_spend = min(max(1.8 *
\* baseline_spend, 0.10 * total_budget), 0.75 * total_budget), enabled
\* exactly when baseline_spend > 0, and no locked spend.
C14_DefaultConstraints ==
    (Derived /\ run_request.total_budget > 0) =>
        /\ Len(constraints_df) = Len(baseline_df)
        /\ \A i \in DOMAIN baseline_df :
              LET bs == baseline_df[i].baseline_spend
                  tb == run_request.total_budget
                  c  == constraints_df[i]
              IN  /\ c.channel = baseline_df[i].channel
                  /\ c.min_spend = FMul(400, bs)
                  /\ c.max_spend = IntMin(IntMax(FMul(1800, bs), FMul(100, tb)), FMul(750, tb))
                  /\ as_bool(c.enabled) <=> bs > 0
                  /\ c.locked_spend = NaN

\* C14 amended: the same, min_spend and max_spend rounded to two decimals.
C14_DefaultConstraintsRounded ==
    (Derived /\ run_request.total_budget > 0) =>
        /\ Len(constraints_df) = Len(baseline_df)
        /\ \A i \in DOMAIN baseline_df :
              LET bs == baseline_df[i].baseline_spend
                  tb == run_request.total_budget
                  c  == constraints_df[i]
              IN  /\ c.channel = baseline_df[i].channel
                  /\ c.min_spend = Round2(FMul(400, bs))
                  /\ c.max_spend = Round2(IntMin(IntMax(FMul(1800, bs), FMul(100, tb)),
                                                 FMul(750, tb)))
                  /\ as_bool(c.enabled) <=> bs > 0
                  /\ c.locked_spend = NaN

\* Default constraints of a table with a channel of no spend, a channel
\* whose 0.40 * baseline_spend has a third decimal, and a channel capped at
\* 0.75 * total_budget.
C14_Witness ==
    /\ Derived
    /\ \E i \in DOMAIN constraints_df : ~as_bool(constraints_df[i].enabled)
    /\ \E i \in DOMAIN constraints_df :
          constraints_df[i].min_spend # FMul(400, baseline_df[i].baseline_spend)
    /\ \E i \in DOMAIN constraints_df :
          /\ constraints_df[i].max_spend = FMul(750, run_request.total_budget)
          /\ FMul(1800, baseline_df[i].baseline_spend) > constraints_df[i].max_spend

(***************************************************************************)
(* C20  Default constraints are feasible (under SpecDefaults).              *)
(***************************************************************************)
\* C20: on a baseline table whose baseline_spend values sum to total_budget
\* the run on the default constraints never raises Infeasible-Constraints:
\* the effective minimums sum to at most total_budget and the effective
\* maximums to at least total_budget.
C20_DefaultsFeasible ==
    SpendTotal(baseline_df) = run_request.total_budget =>
        /\ error \notin {"InfeasibleMin", "InfeasibleMax"}
        /\ (Resolved /\ pc # "check") =>
              MinBoundSum <= total_budget /\ MaxBoundSum >= total_budget

(***************************************************************************)
(* C15  Greedy selection and tie-break.                                     *)
(***************************************************************************)
\* The channels a round may choose: enabled, spend below max_spend_effective.
Eligible == {i \in DOMAIN merged :
                merged[i].enabled /\ FLt(allocation[i], merged[i].max_spend_effective)}

\* The candidate delta of channel i and the gain it gives.
CandidateDelta(i) ==
    PyMin(PyMin(step, remaining), FSub(merged[i].max_spend_effective, allocation[i]))

MarginalGain(i) ==
    FSub(score(predict(merged[i].base, FAdd(allocation[i], CandidateDelta(i))), weights),
         score(predict(merged[i].base, allocation[i]), weights))

\* A round has applied an increment in this step.
RoundApplied == pc = "loop" /\ pc' = "loop" /\ rounds' = rounds + 1

Chosen == CHOOSE i \in DOMAIN allocation : allocation'[i] # allocation[i]

\* C15: the channel a round raises is an enabled channel below its maximum
\* whose marginal gain, for its own candidate delta, no other such channel
\* exceeds, and the first in the table's order among those of that gain.
C15_GreedySelection ==
    [][RoundApplied =>
          /\ \E i \in DOMAIN allocation : allocation'[i] # allocation[i]
          /\ Chosen \in Eligible
          /\ \A j \in Eligible : FGe(MarginalGain(Chosen), MarginalGain(j))
          /\ \A j \in Eligible : MarginalGain(j) = MarginalGain(Chosen) => Chosen <= j]_vars

\* In the loop, after a round, two channels that may be chosen have the same
\* greatest gain.
C15_Witness ==
    /\ pc = "loop"
    /\ rounds > 0
    /\ FGt(remaining, LoopTol)
    /\ \E i, j \in Eligible :
          /\ i # j
          /\ MarginalGain(i) = MarginalGain(j)
          /\ \A k \in Eligible : FGe(MarginalGain(i), MarginalGain(k))

(***************************************************************************)
(* C16  Effect of one greedy round.                                         *)
(***************************************************************************)
\* The sum of a vector of numbers; it has no value (NaN) when an entry has
\* none.
RECURSIVE NumSum(_)
NumSum(v) ==
    IF v = <<>> THEN 0 ELSE FAdd(Head(v), NumSum(Tail(v)))

\* min(step, remaining, headroom) of numbers; no value when one has none.
Min3(a, b, c) ==
    IF a = NaN \/ b = NaN \/ c = NaN THEN NaN ELSE IntMin(IntMin(a, b), c)

LoopStarts == pc = "check" /\ pc' = "loop"

\* The effect C16 gives to a step of the run.
RoundEffect ==
    /\ LoopStarts =>
          /\ allocation' = Column(merged, "min_spend_effective")
          /\ remaining' # NaN
          /\ remaining' = FSub(total_budget, NumSum(allocation'))
          /\ step' = IntMax(total_budget \div StepDivisor, MinStep)
    /\ RoundApplied =>
          \E i \in DOMAIN allocation :
              LET delta == FSub(allocation'[i], allocation[i])
              IN  /\ FGt(delta, 0)
                  /\ delta = Min3(step, remaining,
                                  FSub(merged[i].max_spend_effective, allocation[i]))
                  /\ remaining' = FSub(remaining, delta)
                  /\ \A j \in DOMAIN allocation \ {i} : allocation'[j] = allocation[j]
                  /\ step' = step
    /\ (pc' = "loop" /\ (LoopStarts \/ RoundApplied)) =>
          /\ NumSum(allocation') # NaN
          /\ FAdd(NumSum(allocation'), remaining') = total_budget
    /\ (pc = "loop" /\ pc' \in {"loop", "residual"}) =>
          \A i \in DOMAIN allocation : ~FLt(allocation'[i], allocation[i])

\* C16: the loop starts with every spend at min_spend_effective, remaining =
\* total_budget - sum of the spends and step = max(total_budget / 400, 50);
\* a round that applies an increment raises exactly one channel's spend by
\* delta = min(step, remaining, max_spend_effective - spend) > 0, lowers
\* remaining by delta and leaves the other spends and step unchanged; so in
\* every state of the loop the spends plus remaining are total_budget, and
\* no spend decreases.
C16_GreedyRoundEffect == [][RoundEffect]_vars

(***************************************************************************)
(* C17  Termination of the greedy loop.                                     *)
(***************************************************************************)
\* The effective minimums are numbers and none is negative.
MinimumsNonNegative ==
    \A i \in DOMAIN merged : FGe(merged[i].min_spend_effective, 0)

\* C17: on an input that passed the feasibility check with N channels and
\* no negative effective minimum, at most N + 401 rounds apply an increment,
\* and the loop is never left because the cap of 100,000 rounds is reached.
\* The count is bounded because all rounds but N + 1 of them (one per channel
\* that reaches its maximum, one that exhausts the budget) take a full step
\* out of the budget.
C17_LoopTermination ==
    (PastCheck /\ MinimumsNonNegative) =>
        /\ rounds <= Len(merged) + StepDivisor + 1
        /\ rounds < MaxRounds
        /\ (pc = "loop" /\ remaining # NaN) =>
               (rounds - Len(merged) - 1) * step <= total_budget - remaining

\* The loop has been left after 400 rounds or more.
C17_Witness ==
    /\ pc = "residual"
    /\ MinimumsNonNegative
    /\ rounds >= StepDivisor

(***************************************************************************)
(* C18  Residual handling.                                                  *)
(***************************************************************************)
\* The headroom of channel i, negative parts counted as 0, and the total
\* (summed as the code sums it).
Headroom(i) ==
    LET room == FSub(merged[i].max_spend_effective, allocation[i])
    IN  IF room = NaN THEN NaN ELSE IntMax(room, 0)

TotalHeadroom == SumOver(DOMAIN merged, [i \in DOMAIN merged |-> Headroom(i)])

ResidualPass == pc = "residual" /\ pc' = "materialize"

\* The effect C18 gives to the residual pass and to the result after it.
ResidualEffect ==
    /\ (ResidualPass /\ FGt(remaining, FeasTol) /\ TotalHeadroom > 0) =>
          /\ \A i \in DOMAIN allocation :
                allocation'[i] =
                    FAdd(allocation[i],
                         IF Headroom(i) = NaN THEN NaN
                         ELSE MulDivR(remaining, Headroom(i), TotalHeadroom)[1])
          /\ remaining' = 0
    /\ (ResidualPass /\ FGt(remaining, FeasTol) /\ TotalHeadroom = 0) =>
          /\ allocation' = allocation
          /\ remaining' = remaining
    /\ ResidualPass => error' = "none"
    /\ (pc = "materialize" /\ pc' = "returned") =>
          /\ result'.summary.unallocated_budget = remaining
          /\ error' = "none"

\* C18: when more than 1e-6 of budget remains after the loop and the total
\* headroom is positive, each channel's spend is raised once by remaining *
\* headroom / total headroom and unallocated_budget becomes 0; when the
\* total headroom is zero the spends are unchanged, the residual is reported
\* as unallocated_budget, and no error is raised.
C18_ResidualHandling == [][ResidualEffect]_vars

\* After a residual pass that shared the budget out, without any round, in
\* unequal parts.
C18_Witness ==
    /\ pc = "materialize"
    /\ rounds = 0
    /\ remaining = 0
    /\ \E i, j \in DOMAIN allocation :
          /\ allocation[i] > merged[i].min_spend_effective
          /\ allocation[j] > merged[j].min_spend_effective
          /\ allocation[i] - merged[i].min_spend_effective
                # allocation[j] - merged[j].min_spend_effective

(***************************************************************************)
(* C19  The loop does not stop for small gains.                             *)
(***************************************************************************)
\* A round can apply an increment, and the loop cannot be left: the guards
\* of GreedyRound and of LoopExit.
RoundDue ==
    /\ rounds < MaxRounds
    /\ ~FLe(remaining, LoopTol)
    /\ Best(merged, allocation, remaining, step, weights).idx # 0

\* The channels that may be chosen and whose gain is a number.
Comparable == {i \in Eligible : MarginalGain(i) # NaN}

\* The weights and the effective bounds are all numbers, so every gain is.
FiniteGains ==
    /\ \A k \in WeightNames : weights[k] # NaN
    /\ \A i \in DOMAIN merged :
          merged[i].min_spend_effective # NaN /\ merged[i].max_spend_effective # NaN

\* C19 as stated: as long as remaining > 1e-9 and some enabled channel is
\* below its maximum a round applies an increment, whatever the gains; the
\* loop ends only when remaining <= 1e-9 or every enabled channel is at its
\* maximum; for finite gains the whole budget is spent.
C19_NeverStopsForSmallGains ==
    /\ (pc = "loop" /\ FGt(remaining, LoopTol) /\ Eligible # {}) => RoundDue
    /\ pc = "residual" => (FLe(remaining, LoopTol) \/ Eligible = {})
    /\ (pc = "returned" /\ FiniteGains) => result.summary.unallocated_budget = 0

\* C19 amended: as long as remaining > 1e-9 and some enabled channel below
\* its maximum has a gain that is a number, a round applies an increment,
\* be the gains zero or negative; the loop ends only when remaining <= 1e-9
\* or no enabled channel below its maximum has such a gain; for finite gains
\* the whole budget is spent.
C19_NeverStopsForNumericGains ==
    /\ (pc = "loop" /\ FGt(remaining, LoopTol) /\ Comparable # {}) => RoundDue
    /\ pc = "residual" => (FLe(remaining, LoopTol) \/ Comparable = {})
    /\ (pc = "returned" /\ FiniteGains) => result.summary.unallocated_budget = 0

\* In the loop, after a round, budget remains and no channel that may be
\* chosen has a positive gain.
C19_Witness ==
    /\ pc = "loop"
    /\ rounds > 0
    /\ FGt(remaining, LoopTol)
    /\ Comparable # {}
    /\ \A i \in Comparable : MarginalGain(i) <= 0
    /\ \E i \in Comparable : MarginalGain(i) < 0

====
